---- MODULE Spec2Model ----
(***************************************************************************)
(* Model of sudo-benchmarks: the bounded-concurrency benchmark executor    *)
(* (src/src/benchmarks.rs), the streaming-response consumer                *)
(* (src/src/client.rs) and the metrics collector (src/src/metrics.rs).     *)
(*                                                                         *)
(* Spec        the executor: run_latency_benchmark, run_throughput_-       *)
(*             benchmark and run_comprehensive_benchmark with their        *)
(*             spawned tasks, the semaphore and the collector.             *)
(* FairSpec    Spec with the fairness of the tokio scheduler and of a      *)
(*             transport whose calls all return.                           *)
(* SpecStream  one call of create_streaming_chat_completion, event by      *)
(*             event.                                                      *)
(***************************************************************************)
EXTENDS Integers, Sequences, FiniteSets, TLC

\* Bounds of the model.
MaxRequests == 2
MaxConcurrency == 2
MaxEvents == 3

\* Program constants.
WARMUPS == 2
DefaultRequests == 50
ThroughputModelCap == 5
CharsPerToken == 4

(***************************************************************************)
(* Option<T>                                                               *)
(***************************************************************************)
None == [some |-> FALSE]
Some(x) == [some |-> TRUE, v |-> x]
UnwrapOr(o, d) == IF o.some THEN o.v ELSE d

(***************************************************************************)
(* Strings as sequences of characters; str::len() is the UTF-8 byte length *)
(***************************************************************************)
\* A character is named by itself (ASCII) or by its code point.
Utf8Width(ch) ==
    IF ch \in {"a", "b", "c", "d", "e"} THEN 1
    ELSE IF ch \in {"U+00E9"} THEN 2
    ELSE 3

RECURSIVE StrLen(_)
StrLen(s) == IF s = <<>> THEN 0 ELSE Utf8Width(Head(s)) + StrLen(Tail(s))

CharCount(s) == Len(s)

CeilDiv(a, b) == (a + b - 1) \div b

(***************************************************************************)
(* Server-sent events.  An item of the event stream is Ok(event) or        *)
(* Err(e); an event's data is the text "[DONE]", text that is not JSON, or *)
(* a JSON value whose fields may each be missing.                          *)
(***************************************************************************)
StreamErr == [err |-> TRUE, kind |-> "err", choices |-> None, usage |-> None]
EvDone == [err |-> FALSE, kind |-> "done", choices |-> None, usage |-> None]
EvGarbage == [err |-> FALSE, kind |-> "text", choices |-> None, usage |-> None]
EvJson(choices, usage) ==
    [err |-> FALSE, kind |-> "json", choices |-> choices, usage |-> usage]

\* A choice of a chunk: {"delta": {"content": s}}, {"delta": {}} or {}.
ChoiceContent(s) == [delta |-> Some([content |-> Some(s)])]
ChoiceNoContent == [delta |-> Some([content |-> None])]
ChoiceNoDelta == [delta |-> None]
\* {"usage": {"completion_tokens": n}} and {"usage": {}}.
Usage(n) == Some([completion_tokens |-> Some(n)])
UsageNoCount == Some([completion_tokens |-> None])

EvEmptyObject == EvJson(None, None)
EvAbcd == EvJson(Some(<<ChoiceContent(<<"a", "b", "c", "d">>)>>), None)
EvTwoChoices ==
    EvJson(Some(<<ChoiceContent(<<"a", "b", "c", "d", "e">>), ChoiceContent(<<"a">>)>>), None)
EvHoles == EvJson(Some(<<ChoiceNoDelta, ChoiceNoContent>>), UsageNoCount)
EvWide == EvJson(Some(<<ChoiceContent(<<"U+65E5", "U+672C">>)>>), None)
EvUsage0 == EvJson(Some(<<>>), Usage(0))
EvAbUsage7 == EvJson(Some(<<ChoiceContent(<<"a", "b">>)>>), Usage(7))

Items ==
    { StreamErr, EvDone, EvGarbage, EvEmptyObject, EvAbcd, EvTwoChoices,
      EvHoles, EvWide, EvUsage0, EvAbUsage7 }

RECURSIVE SeqsUpTo(_, _)
SeqsUpTo(S, n) ==
    IF n = 0 THEN {<<>>}
    ELSE LET shorter == SeqsUpTo(S, n - 1)
         IN  shorter \cup {Append(q, x) : q \in {r \in shorter : Len(r) = n - 1}, x \in S}

(***************************************************************************)
(* Result<T>                                                               *)
(***************************************************************************)
Ok(x) == [ok |-> TRUE, v |-> x]
Err(e) == [ok |-> FALSE, e |-> e]

(***************************************************************************)
(* SudoClient::create_streaming_chat_completion (client.rs 104-212).       *)
(* The transport's answer to one call: the outcome of send() and of the    *)
(* status check, and the items the event stream then yields until it       *)
(* closes.  Time is a clock that each await advances.                      *)
(***************************************************************************)
HttpOutcomes == {"ok", "send_error", "status_error"}
StreamingResponse(http, stream) == [http |-> http, stream |-> stream]

(***************************************************************************)
(* ChatCompletionRequest and its constructors (models.rs 6-24, 95-130)     *)
(***************************************************************************)
Prompt == "Write a short paragraph about the benefits of API performance benchmarking."
DefaultMaxTokens == 150
LatencyMaxTokens == 8
ThroughputMaxTokens == 512

simple_text_request(model, message, streaming) ==
    [ messages |-> << [role |-> "user", content |-> message] >>,
      model |-> model,
      max_completion_tokens |-> Some(DefaultMaxTokens),
      stream |-> IF streaming THEN Some(TRUE) ELSE None,
      stream_options |-> None ]

benchmark_request(model, streaming) == simple_text_request(model, Prompt, streaming)

benchmark_latency_request(model, streaming) ==
    [benchmark_request(model, streaming) EXCEPT
        !.max_completion_tokens = Some(LatencyMaxTokens)]

benchmark_throughput_request(model, streaming) ==
    [benchmark_request(model, streaming) EXCEPT
        !.max_completion_tokens = Some(ThroughputMaxTokens)]

\* The requests the runner builds for a streaming call (benchmarks.rs 166,
\* 253, 278) and a template of a caller that did not ask for streaming.
Requests ==
    { benchmark_latency_request("m1", TRUE),
      benchmark_throughput_request("m1", TRUE),
      benchmark_throughput_request("m1", FALSE) }

\* client.rs 112-115: the copy of the request that is sent
StreamingRequest_AsGiven(request_) == request_
StreamingRequest(request_) ==
    [request_ EXCEPT !.stream = Some(TRUE),
                     !.stream_options = Some([include_usage |-> TRUE])]

\* The locals of the call after the status check (lines 136-150); `now` is the
\* last reading of Instant::now() relative to start_time.
NewStreamingCall(model, now) ==
    [ metric |-> [ total_duration |-> 0, time_to_first_chunk |-> None,
                   chunk_count |-> 0, total_tokens |-> 0, model |-> model ],
      first_chunk_received |-> FALSE,
      usage_completion_tokens |-> None,
      now |-> now,
      brk |-> FALSE ]

\* event.data == "[DONE]" (line 166)
IsDone_Never(ev) == FALSE
IsDone(ev) == ev.kind = "done"

\* (content.len() as f32 / 4.0).ceil() as u32 (line 178)
EstimateTokens(content) == CeilDiv(StrLen(content), CharsPerToken)

ChoiceTokens(choice) ==
    IF choice.delta.some /\ choice.delta.v.content.some
    THEN EstimateTokens(choice.delta.v.content.v)
    ELSE 0

RECURSIVE SumChoiceTokens(_)
SumChoiceTokens(choices) ==
    IF choices = <<>> THEN 0
    ELSE ChoiceTokens(Head(choices)) + SumChoiceTokens(Tail(choices))

\* lines 173-182: the tokens one parsed chunk adds
DataTokens(ev) == IF ev.choices.some THEN SumChoiceTokens(ev.choices.v) ELSE 0

\* lines 184-188: the usage one parsed chunk carries (`ct as u32` leaves the
\* counts of this model, all far below 2^32, as they are)
DataUsage(ev) ==
    IF ev.usage.some /\ ev.usage.v.completion_tokens.some
    THEN Some(ev.usage.v.completion_tokens.v)
    ELSE None

\* A consumer that stamps every event as the first one.
CountChunk_LastChunk(c) ==
    [c EXCEPT !.metric.time_to_first_chunk = Some(c.now),
              !.first_chunk_received = TRUE,
              !.metric.chunk_count = @ + 1]

\* lines 157-163: first-chunk milestone and chunk count
CountChunk(c) ==
    [c EXCEPT !.metric.time_to_first_chunk =
                  IF c.first_chunk_received THEN @ ELSE Some(c.now),
              !.first_chunk_received = TRUE,
              !.metric.chunk_count = @ + 1]

\* A loop that gives up at the first payload that is not JSON.
ConsumeItem_StrictParse(c0, item, d) ==
    LET c == [c0 EXCEPT !.now = @ + d] IN
    IF item.kind # "json" THEN [c EXCEPT !.brk = TRUE]
    ELSE [CountChunk(c) EXCEPT !.metric.total_tokens = @ + DataTokens(item)]

\* One iteration of the while-let loop (lines 152-198) on the item the stream
\* yields after `d` more time.
ConsumeItem(c0, item, d) ==
    LET c == [c0 EXCEPT !.now = @ + d] IN
    IF item.err THEN [c EXCEPT !.brk = TRUE]
    ELSE LET c1 == CountChunk(c) IN
         IF IsDone(item) THEN [c1 EXCEPT !.brk = TRUE]
         ELSE IF item.kind = "json"
              THEN [c1 EXCEPT !.metric.total_tokens = @ + DataTokens(item),
                              !.usage_completion_tokens =
                                  IF DataUsage(item).some THEN DataUsage(item) ELSE @]
              ELSE c1

\* metric.time_to_first_chunk.is_none() (line 207)
NoChunkReceived_Never(metric) == FALSE
NoChunkReceived(metric) == ~metric.time_to_first_chunk.some

\* After the loop (lines 200-211), `d` more time having passed.
FinishStreamingCall(c, d) ==
    LET m1 == [c.metric EXCEPT !.total_duration = c.now + d]
        m2 == IF c.usage_completion_tokens.some
              THEN [m1 EXCEPT !.total_tokens = c.usage_completion_tokens.v]
              ELSE m1
    IN  IF NoChunkReceived(m2) THEN Err("No streaming chunks received") ELSE Ok(m2)

RECURSIVE Drain(_, _)
Drain(c, items) ==
    IF items = <<>> \/ c.brk THEN c
    ELSE Drain(ConsumeItem(c, Head(items), 1), Tail(items))

\* The whole call as a function of the transport's answer, every await taking
\* one tick.
create_streaming_chat_completion(model, response) ==
    IF response.http # "ok" THEN Err(response.http)
    ELSE FinishStreamingCall(Drain(NewStreamingCall(model, 1), response.stream), 1)

(***************************************************************************)
(* SudoClient::create_chat_completion (client.rs 62-102): the transport's  *)
(* answer is the outcome of send(), of the status check and of the body's  *)
(* decoding.  The executor's metrics carry fixed timings.                  *)
(***************************************************************************)
RegularOutcomes == {"ok", "send_error", "status_error", "body_error"}

LatencyMetric(model) ==
    [total_duration |-> 2, time_to_first_byte |-> 1, model |-> model]

create_chat_completion(model, response) ==
    IF response.http = "ok" THEN Ok(LatencyMetric(model)) ELSE Err(response.http)

\* f64 rates are kept as exact fractions.
Ratio(n, d) == [num |-> n, den |-> d]

\* std::time::Duration is kept as a whole number of microseconds.
MicrosPerMilli == 1000
MicrosPerSec == 1000000
NanosPerMicro == 1000

as_millis(d) == d \div MicrosPerMilli
from_millis(ms) == ms * MicrosPerMilli
as_nanos(d) == d * NanosPerMicro
as_secs_f64(d) == Ratio(d, MicrosPerSec)

RECURSIVE Gcd(_, _)
Gcd(a, b) == IF b = 0 THEN a ELSE Gcd(b, a % b)

\* An f64 result as a fraction in lowest terms.
Reduced(r) ==
    IF r.num = 0 THEN Ratio(0, 1)
    ELSE Ratio(r.num \div Gcd(r.num, r.den), r.den \div Gcd(r.num, r.den))

\* x / y and x + y of f64 values
RatDiv(x, y) == Reduced(Ratio(x.num * y.den, x.den * y.num))
RatAdd(x, y) == Reduced(Ratio(x.num * y.den + y.num * x.den, x.den * y.den))
FromInt(n) == Ratio(n, 1)

\* Duration::saturating_sub
SaturatingSub(a, b) == IF a >= b THEN a - b ELSE 0

\* A throughput test that hands the error of a failed call to its caller.
single_request_streaming_throughput_test_PropagatesError(model, response) ==
    LET r == create_streaming_chat_completion(model, response) IN
    IF r.ok
    THEN Ok([ duration |-> 0,
              successful_requests |-> 1,
              failed_requests |-> 0,
              tokens_per_second |-> Ratio(0, 1),
              requests_per_second |-> Ratio(0, 1),
              model |-> model ])
    ELSE r

\* lines 312-318: the time from the first chunk to the end of the stream
generation_duration_EndToEnd(sm) == sm.total_duration
generation_duration(sm) ==
    IF sm.time_to_first_chunk.some
    THEN SaturatingSub(sm.total_duration, sm.time_to_first_chunk.v)
    ELSE sm.total_duration

\* lines 309-348: the match on what the streaming call returned
ThroughputOfStreaming(r, model) ==
    IF r.ok
    THEN LET sm == r.v
             gen == generation_duration(sm)
         IN  Ok([ duration |-> gen,
                  successful_requests |-> 1,
                  failed_requests |-> 0,
                  tokens_per_second |->
                      IF gen > 0
                      THEN RatDiv(FromInt(sm.total_tokens), as_secs_f64(gen))
                      ELSE Ratio(0, 1),
                  requests_per_second |->
                      IF sm.total_duration > 0
                      THEN RatDiv(FromInt(1), as_secs_f64(sm.total_duration))
                      ELSE Ratio(0, 1),
                  model |-> model ])
    ELSE Ok([ duration |-> 0,
              successful_requests |-> 0,
              failed_requests |-> 1,
              tokens_per_second |-> Ratio(0, 1),
              requests_per_second |-> Ratio(0, 1),
              model |-> model ])

\* SudoClient::single_request_streaming_throughput_test (client.rs 305-349)
single_request_streaming_throughput_test(model, response) ==
    ThroughputOfStreaming(create_streaming_chat_completion(model, response), model)

(***************************************************************************)
(* MetricsCollector (metrics.rs 77-108)                                    *)
(***************************************************************************)
MetricsCollector_new ==
    [ latency_metrics |-> <<>>, streaming_metrics |-> <<>>,
      throughput_metrics |-> <<>>, errors |-> <<>> ]

add_latency_metric(c, metric) == [c EXCEPT !.latency_metrics = Append(@, metric)]
add_streaming_metric(c, metric) == [c EXCEPT !.streaming_metrics = Append(@, metric)]
add_throughput_metric(c, metric) == [c EXCEPT !.throughput_metrics = Append(@, metric)]
add_error(c, error) == [c EXCEPT !.errors = Append(@, error)]

\* benchmarks.rs 176-181: what the merge loop of the streaming latency test
\* does with the result of a task that did not panic
MergeStreaming(c, result) ==
    IF result.ok THEN add_streaming_metric(c, result.v) ELSE add_error(c, result.e)

\* A filter that lets the metrics of every model through.
FilterModel_AnyModel(metrics, model) == metrics

\* .iter().filter(|m| m.model == model).collect()
RECURSIVE FilterModel(_, _)
FilterModel(metrics, model) ==
    IF metrics = <<>> THEN <<>>
    ELSE IF Head(metrics).model = model
         THEN <<Head(metrics)>> \o FilterModel(Tail(metrics), model)
         ELSE FilterModel(Tail(metrics), model)

RECURSIVE SumField(_, _)
SumField(metrics, f) ==
    IF metrics = <<>> THEN 0 ELSE Head(metrics)[f] + SumField(Tail(metrics), f)

\* .iter().map(|m| m.field).sum::<f64>()
RECURSIVE SumRate(_, _)
SumRate(metrics, f) ==
    IF metrics = <<>> THEN Ratio(0, 1)
    ELSE RatAdd(Head(metrics)[f], SumRate(Tail(metrics), f))

\* .iter().map(f).collect()
MapSeq(metrics, f(_)) == [i \in 1..Len(metrics) |-> f(metrics[i])]

RECURSIVE SumSeq(_)
SumSeq(values) == IF values = <<>> THEN 0 ELSE Head(values) + SumSeq(Tail(values))

\* Vec::sort of numbers
Sort(values) == SortSeq(values, LAMBDA a, b : a < b)

\* .iter().filter_map(|m| m.time_to_first_chunk).collect()
RECURSIVE FilterMapTtfc(_)
FilterMapTtfc(metrics) ==
    IF metrics = <<>> THEN <<>>
    ELSE IF Head(metrics).time_to_first_chunk.some
         THEN <<Head(metrics).time_to_first_chunk.v>> \o FilterMapTtfc(Tail(metrics))
         ELSE FilterMapTtfc(Tail(metrics))

\* slice.get(index), with the index counted from 0
Get(values, index) == IF index < Len(values) THEN Some(values[index + 1]) ELSE None
Min(a, b) == IF a <= b THEN a ELSE b

\* hdrhistogram::Histogram::<u64>::new(3), as used in lines 132-135 and
\* 150-152: three significant digits give 2048 sub-buckets, so that a value
\* below 2048 has a bucket of its own and a value v >= 2048 shares its bucket
\* with the values that agree with it above its lowest floor(log2 v) - 10
\* bits.  value_at_quantile(q) finds the bucket at which the running count
\* reaches ceil(q * total_count), at least 1, and returns the highest value
\* of that bucket (the lowest when q = 0, which the code never asks for).
HistSubBucketCount == 2048

RECURSIVE size_of_equivalent_range(_)
size_of_equivalent_range(v) ==
    IF v < HistSubBucketCount THEN 1 ELSE 2 * size_of_equivalent_range(v \div 2)

highest_equivalent(v) ==
    (v \div size_of_equivalent_range(v)) * size_of_equivalent_range(v)
        + size_of_equivalent_range(v) - 1

\* A quantile counted from the largest value down.
value_at_quantile_FromTop(recorded, qnum, qden) ==
    LET fractional_count == CeilDiv(qnum * Len(recorded), qden)
        count_at_quantile == IF fractional_count = 0 THEN 1 ELSE fractional_count
    IN  highest_equivalent(recorded[Len(recorded) + 1 - count_at_quantile])

\* `recorded` holds the recorded values in ascending order; q = qnum / qden.
value_at_quantile(recorded, qnum, qden) ==
    LET fractional_count == CeilDiv(qnum * Len(recorded), qden)
        count_at_quantile == IF fractional_count = 0 THEN 1 ELSE fractional_count
    IN  highest_equivalent(recorded[count_at_quantile])

\* lines 137-142: the sum of the millisecond values over their number, in
\* u64 arithmetic
MeanMillis_OverCountPlusOne(values) == SumSeq(values) \div (Len(values) + 1)

MeanMillis(values) == SumSeq(values) \div Len(values)

TotalMillis(m) == as_millis(m.total_duration)
TtfbMillis(m) == as_millis(m.time_to_first_byte)

\* lines 154-156: the index into ttfbs, which is in the order of the metrics
P95Index(n) == Min((n * 95) \div 100, n - 1)

\* MetricsCollector::calculate_latency_stats (metrics.rs 110-159)
calculate_latency_stats(c, model) ==
    LET model_metrics == FilterModel(c.latency_metrics, model) IN
    IF model_metrics = <<>> THEN None
    ELSE LET latencies == Sort(MapSeq(model_metrics, TotalMillis))
             ttfbs == MapSeq(model_metrics, TtfbMillis)
         IN  Some([ model |-> model,
                    request_count |-> Len(model_metrics),
                    min_latency |-> from_millis(latencies[1]),
                    max_latency |-> from_millis(latencies[Len(latencies)]),
                    mean_latency |-> from_millis(MeanMillis(latencies)),
                    p50_latency |-> from_millis(value_at_quantile(latencies, 50, 100)),
                    p95_latency |-> from_millis(value_at_quantile(latencies, 95, 100)),
                    p99_latency |-> from_millis(value_at_quantile(latencies, 99, 100)),
                    mean_ttfb |-> from_millis(MeanMillis(ttfbs)),
                    p95_ttfb |->
                        from_millis(UnwrapOr(Get(ttfbs, P95Index(Len(ttfbs))), 0)) ])

\* line 186: ttfcs.get(ttfcs.len() * 95 / 100), the index is not clamped
TtfcIndex(n) == (n * 95) \div 100

\* The tokens per second of one sample.
SampleRate(m) ==
    [ rate |-> IF m.total_duration > 0
               THEN RatDiv(FromInt(m.total_tokens), as_secs_f64(m.total_duration))
               ELSE Ratio(0, 1) ]

\* The mean of the samples' own rates.
MeanTokensPerSecond_MeanOfRates(model_metrics) ==
    RatDiv(SumRate(MapSeq(model_metrics, SampleRate), "rate"),
           FromInt(Len(model_metrics)))

\* lines 188-194

MeanTokensPerSecond(model_metrics) ==
    LET total_tokens == SumField(model_metrics, "total_tokens")
        total_duration == SumField(model_metrics, "total_duration")
    IN  IF total_duration > 0
        THEN RatDiv(FromInt(total_tokens), as_secs_f64(total_duration))
        ELSE Ratio(0, 1)

\* MetricsCollector::calculate_streaming_stats (metrics.rs 161-205).  The
\* mean time to first chunk is built by Duration::from_nanos and is kept in
\* nanoseconds.
calculate_streaming_stats(c, model) ==
    LET model_metrics == FilterModel(c.streaming_metrics, model) IN
    IF model_metrics = <<>> THEN None
    ELSE LET ttfcs == Sort(FilterMapTtfc(model_metrics))
         IN  Some([ model |-> model,
                    request_count |-> Len(model_metrics),
                    mean_time_to_first_chunk |->
                        IF ttfcs = <<>> THEN 0
                        ELSE SumSeq(MapSeq(ttfcs, as_nanos)) \div Len(ttfcs),
                    p95_time_to_first_chunk |->
                        UnwrapOr(Get(ttfcs, TtfcIndex(Len(ttfcs))), from_millis(0)),
                    mean_tokens_per_second |-> MeanTokensPerSecond(model_metrics),
                    total_chunks |-> SumField(model_metrics, "chunk_count") ])

\* A mean over the successful requests instead of over the samples.
MeanRate_OverSuccessful(model_metrics, f) ==
    IF SumField(model_metrics, "successful_requests") = 0 THEN Ratio(0, 1)
    ELSE RatDiv(SumRate(model_metrics, f),
                FromInt(SumField(model_metrics, "successful_requests")))

\* lines 223-224: .map(|m| m.rate).sum::<f64>() / model_metrics.len() as f64
MeanRate(model_metrics, f) ==
    RatDiv(SumRate(model_metrics, f), FromInt(Len(model_metrics)))

\* lines 234-238
SuccessRate_OfFailed(successful_requests, failed_requests, total_requests) ==
    IF total_requests > 0
    THEN RatDiv(Ratio(failed_requests * 100, 1), FromInt(total_requests))
    ELSE Ratio(0, 1)

SuccessRate(successful_requests, failed_requests, total_requests) ==
    IF total_requests > 0
    THEN RatDiv(Ratio(successful_requests * 100, 1), FromInt(total_requests))
    ELSE Ratio(0, 1)

\* MetricsCollector::calculate_throughput_stats (metrics.rs 207-240)
calculate_throughput_stats(c, model) ==
    LET model_metrics == FilterModel(c.throughput_metrics, model) IN
    IF model_metrics = <<>> THEN None
    ELSE LET successful_requests == SumField(model_metrics, "successful_requests")
             failed_requests == SumField(model_metrics, "failed_requests")
             total_requests == successful_requests + failed_requests
         IN  Some([ model |-> model,
                    test_duration |-> SumField(model_metrics, "duration"),
                    total_requests |-> total_requests,
                    successful_requests |-> successful_requests,
                    failed_requests |-> failed_requests,
                    mean_requests_per_second |->
                        MeanRate(model_metrics, "requests_per_second"),
                    mean_tokens_per_second |->
                        MeanRate(model_metrics, "tokens_per_second"),
                    success_rate |->
                        SuccessRate(successful_requests, failed_requests,
                                    total_requests) ])

(***************************************************************************)
(* State                                                                   *)
(***************************************************************************)
VARIABLES
    \* BenchmarkRunner and the benchmark it runs (benchmarks.rs)
    supported_models,   \* BenchmarkRunner.supported_models
    plan,               \* the benchmarks main asked for, in order
    phase,              \* index in plan of the benchmark being run
    models_to_test,     \* run_*_benchmark: the models it loops over
    mi,                 \* index in models_to_test of the current model
    all_results,        \* run_*_benchmark: HashMap model -> stats
    warmups_done,       \* warm_up_model: iterations of its loop entered
    warm,               \* the warm-up call in flight, if any
    warm_errors,        \* warm-up failures logged for the current model
    semaphore,          \* permits available in the test's Semaphore
    tasks,              \* the JoinHandles of the test, in spawn order
    next_result,        \* index of the next result the merge loop reads
    collector,          \* the test's MetricsCollector
    calls,              \* calls the transport has received
    pc,                 \* where the runner is
    exit,               \* what main got back
    \* one call of create_streaming_chat_completion (client.rs)
    response,           \* the transport's answer: status and event stream
    consumed,           \* items of the stream read so far
    call,               \* the locals of the call
    spc,                \* where the call is
    ret,                \* what the call returned
    request,            \* the caller's ChatCompletionRequest
    sent,               \* the body handed to the transport, if any
    throughput,         \* what the throughput test around the call returned
    \* the statistics of a collector (metrics.rs)
    stats               \* what the last calculate_*_stats calls returned

execVars ==
    << supported_models, plan, phase, models_to_test, mi, all_results,
       warmups_done, warm_errors, warm, semaphore, tasks, next_result,
       collector, calls, pc, exit >>
streamVars == << response, consumed, call, spc, ret, request, sent, throughput >>
statsVars == << stats >>
vars == << execVars, streamVars, statsVars >>

(***************************************************************************)
(* BenchmarkConfig (benchmarks.rs 12-38)                                   *)
(***************************************************************************)
BenchmarkConfig_latency(requests, concurrency, model, streaming) ==
    [ requests |-> Some(requests), concurrency |-> concurrency,
      model |-> model, streaming |-> streaming ]

BenchmarkConfig_throughput(concurrency, model) ==
    [ requests |-> Some(concurrency), concurrency |-> concurrency,
      model |-> model, streaming |-> TRUE ]

\* What get_models returned when the runner was built, and the model lists a
\* user may name: none, supported ones, a repeated one, unsupported ones.
FetchedModels == <<"m1", "m2">>

\* A server with one model more than run_throughput_benchmark takes.
ManyModels == <<"m1", "m2", "m3", "m4", "m5", "m6">>
ModelArgs ==
    { <<>>, <<"m1">>, <<"m2", "m1">>, <<"m1", "m1">>, <<"bad">>, <<"m1", "bad">> }

Contains(list, x) == \E i \in 1..Len(list) : list[i] = x
Take(list, n) == SubSeq(list, 1, IF n < Len(list) THEN n ELSE Len(list))

\* main (main.rs 93-123): the benchmarks one subcommand runs.
LatencyCommand(requests, concurrency, model, streaming) ==
    << [ op |-> "run_latency_benchmark",
         config |-> BenchmarkConfig_latency(requests, concurrency, model, streaming) ] >>

ThroughputCommand(concurrency, model) ==
    << [ op |-> "run_throughput_benchmark",
         config |-> BenchmarkConfig_throughput(concurrency, model) ] >>

\* The three benchmarks with the two latency benchmarks exchanged.
run_comprehensive_benchmark_StreamingFirst(latency_requests, concurrency) ==
    << [ op |-> "run_latency_benchmark",
         config |-> BenchmarkConfig_latency(latency_requests, concurrency, <<>>, TRUE) ],
       [ op |-> "run_latency_benchmark",
         config |-> BenchmarkConfig_latency(latency_requests, concurrency, <<>>, FALSE) ],
       [ op |-> "run_throughput_benchmark",
         config |-> BenchmarkConfig_throughput(concurrency, <<>>) ] >>

\* run_comprehensive_benchmark (benchmarks.rs 291-320)
run_comprehensive_benchmark(latency_requests, concurrency) ==
    << [ op |-> "run_latency_benchmark",
         config |-> BenchmarkConfig_latency(latency_requests, concurrency, <<>>, FALSE) ],
       [ op |-> "run_latency_benchmark",
         config |-> BenchmarkConfig_latency(latency_requests, concurrency, <<>>, TRUE) ],
       [ op |-> "run_throughput_benchmark",
         config |-> BenchmarkConfig_throughput(concurrency, <<>>) ] >>

Plans ==
    { LatencyCommand(r, c, m, s) :
        r \in 0..MaxRequests, c \in 0..MaxConcurrency, m \in ModelArgs, s \in BOOLEAN }
    \cup { ThroughputCommand(c, m) : c \in 0..MaxConcurrency, m \in ModelArgs }
    \cup { run_comprehensive_benchmark(r, c) :
             r \in 0..MaxRequests, c \in 0..MaxConcurrency }

\* The runs: a server's model list and what main asks for.  Against the
\* server with many models a benchmark of all models sends one request each.
Runs ==
    { [supported |-> FetchedModels, plan |-> p] : p \in Plans }
    \cup { [supported |-> ManyModels, plan |-> p] :
             p \in { LatencyCommand(1, 1, <<>>, s) : s \in BOOLEAN }
                      \cup { ThroughputCommand(1, <<>>) } }

config == plan[phase].config
current_model == models_to_test[mi]

\* Which test a benchmark runs per model (lines 96-100, 221).
Test ==
    IF plan[phase].op = "run_throughput_benchmark" THEN "streaming_throughput"
    ELSE IF config.streaming THEN "streaming_latency"
    ELSE "regular_latency"

\* A spawn loop that runs once too often in the throughput test.
TaskCount_OneTooMany ==
    IF Test = "streaming_throughput" THEN config.concurrency + 1
    ELSE UnwrapOr(config.requests, DefaultRequests)

\* How many tasks the test spawns (lines 97, 99, 121, 158, 245).
TaskCount ==
    IF Test = "streaming_throughput" THEN config.concurrency
    ELSE UnwrapOr(config.requests, DefaultRequests)

\* lines 77-81, 199-203: every requested model is in supported_models
AllSupported_FirstOnly(requested, supported) ==
    requested = <<>> \/ Contains(supported, requested[1])
AllSupported(requested, supported) ==
    \A i \in 1..Len(requested) : Contains(supported, requested[i])

\* A selection that takes only the first known model when none is named.
SelectModels_FirstKnownOnly(op, cfg, supported) ==
    IF cfg.model # <<>>
    THEN IF AllSupported(cfg.model, supported)
         THEN Ok(cfg.model)
         ELSE Err("Model is not supported")
    ELSE Ok(Take(supported, 1))

\* lines 75-85 and 197-208
SelectModels(op, cfg, supported) ==
    IF cfg.model # <<>>
    THEN IF AllSupported(cfg.model, supported)
         THEN Ok(cfg.model)
         ELSE Err("Model is not supported")
    ELSE IF op = "run_throughput_benchmark"
         THEN Ok(Take(supported, ThroughputModelCap))
         ELSE Ok(supported)

(***************************************************************************)
(* The spawned tasks (benchmarks.rs 126-131, 163-168, 250-255)             *)
(***************************************************************************)
\* A request in flight is tagged with the benchmark and the model it is for.
Tag == [phase |-> phase, mi |-> mi, model |-> current_model]

NoAnswer == [http |-> "pending", stream |-> <<>>]

NewTask ==
    [ st |-> "waiting", permit |-> FALSE, tag |-> Tag, test |-> Test,
      answer |-> NoAnswer, panicked |-> FALSE ]

\* The answers the transport gives the executor's calls.
RegularAnswers == { [http |-> h, stream |-> <<>>] : h \in RegularOutcomes }
StreamingAnswers ==
    { StreamingResponse(h, <<>>) : h \in {"send_error", "status_error"} }
    \cup { StreamingResponse("ok", q) :
             q \in { <<>>, <<StreamErr>>, <<EvAbcd, EvDone>>, <<EvAbcd, StreamErr>> } }

Answers(test) == IF test = "regular_latency" THEN RegularAnswers ELSE StreamingAnswers

\* semaphore.acquire().await completes when a permit is available
\* _permit goes out of scope when the async block ends or unwinds (lines
\* 127-131, 164-168, 251-255): SemaphorePermit::drop hands the permit back
DropPermit_Leaks(permits) == permits
DropPermit(permits) == permits + 1

PermitAvailable_Always == TRUE
PermitAvailable == semaphore > 0

Outstanding(i) == tasks[i].st = "inflight"
Completed(i) == tasks[i].st = "done"

\* What the task's JoinHandle yields: Err(JoinError) when the task panicked,
\* else Ok of the value of its async block.
TaskOutput(task) ==
    IF task.panicked THEN Err("JoinError")
    ELSE Ok(CASE task.test = "regular_latency" ->
                     create_chat_completion(task.tag.model, task.answer)
              [] task.test = "streaming_latency" ->
                     create_streaming_chat_completion(task.tag.model, task.answer)
              [] OTHER ->
                     single_request_streaming_throughput_test(task.tag.model, task.answer))

\* One arm of the match of the merge loop (lines 138-144, 175-187, 262-268).
Merge(c, task) ==
    LET result == TaskOutput(task) IN
    IF ~result.ok THEN add_error(c, "Task error")
    ELSE IF ~result.v.ok THEN add_error(c, result.v.e)
    ELSE CASE task.test = "regular_latency" -> add_latency_metric(c, result.v.v)
           [] task.test = "streaming_latency" -> add_streaming_metric(c, result.v.v)
           [] OTHER -> add_throughput_metric(c, result.v.v)

\* A test that reports statistics even when it collected no metric.
TestResult_AlwaysOk(c, test, m) == Ok([model |-> m, request_count |-> 0])

\* lines 146-150, 189-193, 270-271
TestResult(c, test, m) ==
    LET computed == CASE test = "regular_latency" -> calculate_latency_stats(c, m)
                      [] test = "streaming_latency" -> calculate_streaming_stats(c, m)
                      [] OTHER -> calculate_throughput_stats(c, m)
    IN  IF computed.some THEN Ok(computed.v) ELSE Err("No successful requests")

\* HashMap::insert
Insert(map, key, value) ==
    {e \in map : e.key # key} \cup {[key |-> key, value |-> value]}

\* join_all(tasks).await (lines 136, 173, 260)
JoinAllReady_NoBarrier == TRUE
JoinAllReady == \A i \in 1..Len(tasks) : Completed(i)

\* lines 278-284: the warm-up call is a streaming one when the config says so
WarmUpCall ==
    [ phase |-> phase, mi |-> mi, model |-> current_model,
      streaming |-> config.streaming ]

\* for i in 0..WARMUPS (line 277): the loop has run all its iterations
WarmUpLoopDone_AtOnce == TRUE
WarmUpLoopDone == warmups_done = WARMUPS

\* the .await of a warm-up call (lines 280, 284)
WarmUpReturned_NotAwaited == TRUE
WarmUpReturned == ~warm.some

(***************************************************************************)
(* The executor                                                            *)
(***************************************************************************)
StreamIdle ==
    /\ response = StreamingResponse("ok", <<>>)
    /\ consumed = 0
    /\ call = NewStreamingCall("m1", 0)
    /\ spc = "idle"
    /\ ret = None
    /\ request = benchmark_latency_request("m1", FALSE)
    /\ sent = None
    /\ throughput = None

StatsIdle == stats = None

Init ==
    /\ \E run \in Runs : supported_models = run.supported /\ plan = run.plan
    /\ phase = 1
    /\ models_to_test = <<>>
    /\ mi = 0
    /\ all_results = {}
    /\ warmups_done = 0
    /\ warm_errors = 0
    /\ warm = None
    /\ semaphore = 0
    /\ tasks = <<>>
    /\ next_result = 0
    /\ collector = MetricsCollector_new
    /\ calls = 0
    /\ pc = "call"
    /\ exit = None
    /\ StreamIdle
    /\ StatsIdle

\* run_latency_benchmark / run_throughput_benchmark, lines 75-85 and 197-208:
\* a requested model is not supported; the error goes up through `?`.
RejectModels ==
    /\ pc = "call"
    /\ ~SelectModels(plan[phase].op, config, supported_models).ok
    /\ exit' = Some(Err(SelectModels(plan[phase].op, config, supported_models).e))
    /\ pc' = "exit"
    /\ UNCHANGED << supported_models, plan, phase, models_to_test, mi, all_results,
                    warmups_done, warm_errors, warm, semaphore, tasks, next_result, collector,
                    calls >>
    /\ UNCHANGED << streamVars, statsVars >>

\* lines 75-89 and 197-214: the models to test are chosen
EnterBenchmark ==
    /\ pc = "call"
    /\ SelectModels(plan[phase].op, config, supported_models).ok
    /\ models_to_test' = SelectModels(plan[phase].op, config, supported_models).v
    /\ mi' = 1
    /\ all_results' = {}
    /\ pc' = "models"
    /\ UNCHANGED << supported_models, plan, phase, warmups_done, warm_errors, warm, semaphore,
                    tasks, next_result, collector, calls, exit >>
    /\ UNCHANGED << streamVars, statsVars >>

\* lines 91-94, 216-219: the loop over the models enters warm_up_model
BeginModel ==
    /\ pc = "models"
    /\ mi <= Len(models_to_test)
    /\ warmups_done' = 0
    /\ pc' = "warm_up"
    /\ UNCHANGED << supported_models, plan, phase, models_to_test, mi, all_results,
                    warm_errors, warm, semaphore, tasks, next_result, collector, calls, exit >>
    /\ UNCHANGED << streamVars, statsVars >>

\* warm_up_model, lines 277-287: one warm-up call is sent
WarmUpDispatch ==
    /\ pc = "warm_up"
    /\ ~WarmUpLoopDone
    /\ WarmUpReturned
    /\ warmups_done' = warmups_done + 1
    /\ warm' = Some(WarmUpCall)
    /\ calls' = calls + 1
    /\ UNCHANGED << supported_models, plan, phase, models_to_test, mi, all_results,
                    warm_errors, semaphore, tasks, next_result, collector, pc, exit >>
    /\ UNCHANGED << streamVars, statsVars >>

\* lines 280-286: the warm-up call returns what the transport answered; a
\* failure is logged and dropped, a success is dropped
WarmUpComplete ==
    /\ warm.some
    /\ warm' = None
    /\ \E ok \in BOOLEAN : warm_errors' = IF ok THEN warm_errors ELSE warm_errors + 1
    /\ UNCHANGED << supported_models, plan, phase, models_to_test, mi, all_results,
                    warmups_done, semaphore, tasks, next_result, collector, calls,
                    pc, exit >>
    /\ UNCHANGED << streamVars, statsVars >>

\* lines 117-119, 154-156, 238-240: the test starts with a fresh semaphore and
\* a fresh collector
StartTest ==
    /\ pc = "warm_up"
    /\ WarmUpLoopDone
    /\ WarmUpReturned
    /\ semaphore' = config.concurrency
    /\ collector' = MetricsCollector_new
    /\ tasks' = <<>>
    /\ pc' = "spawn"
    /\ UNCHANGED << supported_models, plan, phase, models_to_test, mi, all_results,
                    warmups_done, warm_errors, warm, next_result, calls, exit >>
    /\ UNCHANGED << streamVars, statsVars >>

\* tokio::spawn (lines 126, 163, 250)
Spawn ==
    /\ pc = "spawn"
    /\ Len(tasks) < TaskCount
    /\ tasks' = Append(tasks, NewTask)
    /\ UNCHANGED << supported_models, plan, phase, models_to_test, mi, all_results,
                    warmups_done, warm_errors, warm, semaphore, next_result, collector, calls,
                    pc, exit >>
    /\ UNCHANGED << streamVars, statsVars >>

\* let _permit = semaphore.acquire().await.unwrap() (lines 127, 164, 251)
Acquire(i) ==
    /\ tasks[i].st = "waiting"
    /\ PermitAvailable
    /\ semaphore' = semaphore - 1
    /\ tasks' = [tasks EXCEPT ![i].st = "permit", ![i].permit = TRUE]
    /\ UNCHANGED << supported_models, plan, phase, models_to_test, mi, all_results,
                    warmups_done, warm_errors, warm, next_result, collector, calls, pc, exit >>
    /\ UNCHANGED << streamVars, statsVars >>

\* The task builds its request and sends it (lines 129-130, 166-167, 253-254).
Dispatch(i) ==
    /\ tasks[i].st = "permit"
    /\ tasks' = [tasks EXCEPT ![i].st = "inflight"]
    /\ calls' = calls + 1
    /\ UNCHANGED << supported_models, plan, phase, models_to_test, mi, all_results,
                    warmups_done, warm_errors, warm, semaphore, next_result, collector, pc, exit >>
    /\ UNCHANGED << streamVars, statsVars >>

\* The call returns, the async block ends and drops _permit.
Complete(i) ==
    /\ Outstanding(i)
    /\ \E a \in Answers(tasks[i].test) :
           tasks' = [tasks EXCEPT ![i].st = "done", ![i].permit = FALSE, ![i].answer = a]
    /\ semaphore' = DropPermit(semaphore)
    /\ UNCHANGED << supported_models, plan, phase, models_to_test, mi, all_results,
                    warmups_done, warm_errors, warm, next_result, collector, calls, pc, exit >>
    /\ UNCHANGED << streamVars, statsVars >>

\* The task panics while its call is in flight; unwinding drops _permit.
Panic(i) ==
    /\ Outstanding(i)
    /\ tasks' = [tasks EXCEPT ![i].st = "done", ![i].permit = FALSE, ![i].panicked = TRUE]
    /\ semaphore' = DropPermit(semaphore)
    /\ UNCHANGED << supported_models, plan, phase, models_to_test, mi, all_results,
                    warmups_done, warm_errors, warm, next_result, collector, calls, pc, exit >>
    /\ UNCHANGED << streamVars, statsVars >>

\* let results = join_all(tasks).await (lines 136, 173, 260)
JoinAll ==
    /\ pc = "spawn"
    /\ Len(tasks) = TaskCount
    /\ JoinAllReady
    /\ next_result' = 1
    /\ pc' = "merge"
    /\ UNCHANGED << supported_models, plan, phase, models_to_test, mi, all_results,
                    warmups_done, warm_errors, warm, semaphore, tasks, collector, calls, exit >>
    /\ UNCHANGED << streamVars, statsVars >>

\* One iteration of `for result in results` (lines 138-144, 175-187, 262-268).
MergeResult ==
    /\ pc = "merge"
    /\ next_result <= Len(tasks)
    /\ Completed(next_result)
    /\ collector' = Merge(collector, tasks[next_result])
    /\ next_result' = next_result + 1
    /\ UNCHANGED << supported_models, plan, phase, models_to_test, mi, all_results,
                    warmups_done, warm_errors, warm, semaphore, tasks, calls, pc, exit >>
    /\ UNCHANGED << streamVars, statsVars >>

\* The statistics are computed and the test returns (lines 146-150, 189-193,
\* 270-271); the benchmark keeps them or logs the error (lines 102-109,
\* 223-230) and goes on to the next model.
FinishTest ==
    /\ pc = "merge"
    /\ next_result > Len(tasks)
    /\ LET result == TestResult(collector, Test, current_model) IN
       all_results' = IF result.ok
                      THEN Insert(all_results, current_model, result.v)
                      ELSE all_results
    /\ mi' = mi + 1
    /\ tasks' = <<>>
    /\ collector' = MetricsCollector_new
    /\ semaphore' = 0
    /\ next_result' = 0
    /\ warmups_done' = 0
    /\ warm_errors' = 0
    /\ pc' = "models"
    /\ UNCHANGED << supported_models, plan, phase, models_to_test, warm, calls, exit >>
    /\ UNCHANGED << streamVars, statsVars >>

\* lines 112-113, 233-234: the results are printed and the benchmark returns
\* Ok(()) whatever the results hold.
BenchmarkReturn_FailsWhenEmpty(results) ==
    IF results = {} THEN Err("No successful requests") ELSE Ok("done")

BenchmarkReturn(results) == Ok("done")

\* The benchmark returns to its caller.  run_comprehensive_benchmark applies
\* `?` to the value (lines 302, 309, 316): Ok goes on to the next benchmark,
\* Err is returned at once.
ReturnFromBenchmark ==
    /\ pc = "models"
    /\ mi > Len(models_to_test)
    /\ LET returned == BenchmarkReturn(all_results) IN
       IF returned.ok /\ phase < Len(plan)
       THEN /\ phase' = phase + 1
            /\ pc' = "call"
            /\ exit' = exit
       ELSE /\ phase' = phase
            /\ pc' = "exit"
            /\ exit' = Some(returned)
    /\ UNCHANGED << supported_models, plan, models_to_test, mi, all_results,
                    warmups_done, warm_errors, warm, semaphore, tasks, next_result, collector,
                    calls >>
    /\ UNCHANGED << streamVars, statsVars >>

Next ==
    \/ RejectModels
    \/ EnterBenchmark
    \/ BeginModel
    \/ WarmUpDispatch
    \/ WarmUpComplete
    \/ StartTest
    \/ Spawn
    \/ JoinAll
    \/ MergeResult
    \/ FinishTest
    \/ ReturnFromBenchmark
    \/ \E i \in 1..Len(tasks) : Acquire(i)
    \/ \E i \in 1..Len(tasks) : Dispatch(i)
    \/ \E i \in 1..Len(tasks) : Complete(i)
    \/ \E i \in 1..Len(tasks) : Panic(i)

Spec == Init /\ [][Next]_vars

\* Every enabled step is eventually taken: the tokio scheduler runs every
\* ready task and every call to the transport returns.
FairSpec == Spec /\ WF_vars(Next)

(***************************************************************************)
(* One streaming call, event by event                                      *)
(***************************************************************************)
ExecIdle ==
    /\ supported_models = FetchedModels
    /\ plan = <<>>
    /\ phase = 0
    /\ models_to_test = <<>>
    /\ mi = 0
    /\ all_results = {}
    /\ warmups_done = 0
    /\ warm_errors = 0
    /\ warm = None
    /\ semaphore = 0
    /\ tasks = <<>>
    /\ next_result = 0
    /\ collector = MetricsCollector_new
    /\ calls = 0
    /\ pc = "idle"
    /\ exit = None

\* The time an await may take.
Ticks == {0, 1}

StreamingResponses ==
    { StreamingResponse(h, <<>>) : h \in HttpOutcomes \ {"ok"} }
    \cup { StreamingResponse("ok", q) : q \in SeqsUpTo(Items, MaxEvents) }

InitStream ==
    /\ ExecIdle
    /\ response \in StreamingResponses
    /\ consumed = 0
    /\ call = NewStreamingCall("m1", 0)
    /\ spc = "send"
    /\ ret = None
    /\ request \in Requests
    /\ sent = None
    /\ throughput = None
    /\ StatsIdle

\* lines 117-134: send() fails, or the status is not a success
SendFails ==
    /\ spc = "send"
    /\ response.http # "ok"
    /\ sent' = Some(StreamingRequest(request))
    /\ ret' = Some(Err(response.http))
    /\ spc' = "returned"
    /\ UNCHANGED << response, consumed, call, request, throughput >>
    /\ UNCHANGED << execVars, statsVars >>

\* lines 117-150: the response arrives with a success status
SendSucceeds ==
    /\ spc = "send"
    /\ response.http = "ok"
    /\ sent' = Some(StreamingRequest(request))
    /\ \E d \in Ticks : call' = NewStreamingCall(request.model, d)
    /\ spc' = "loop"
    /\ UNCHANGED << response, consumed, ret, request, throughput >>
    /\ UNCHANGED << execVars, statsVars >>

\* lines 152-198: stream.next().await yields the next item
ReceiveItem ==
    /\ spc = "loop"
    /\ consumed < Len(response.stream)
    /\ \E d \in Ticks :
           call' = ConsumeItem(call, response.stream[consumed + 1], d)
    /\ consumed' = consumed + 1
    /\ spc' = IF call'.brk THEN "after" ELSE "loop"
    /\ UNCHANGED << response, ret, request, sent, throughput >>
    /\ UNCHANGED << execVars, statsVars >>

\* line 152: stream.next().await yields None, the stream is closed
StreamCloses ==
    /\ spc = "loop"
    /\ consumed = Len(response.stream)
    /\ spc' = "after"
    /\ UNCHANGED << response, consumed, call, ret, request, sent, throughput >>
    /\ UNCHANGED << execVars, statsVars >>

\* lines 200-211
Return ==
    /\ spc = "after"
    /\ \E d \in Ticks : ret' = Some(FinishStreamingCall(call, d))
    /\ spc' = "returned"
    /\ UNCHANGED << response, consumed, call, request, sent, throughput >>
    /\ UNCHANGED << execVars, statsVars >>

\* client.rs 309-348: the caller was single_request_streaming_throughput_test,
\* which matches on what the call it awaited returned
ThroughputTest ==
    /\ spc = "returned"
    /\ throughput = None
    /\ collector = MetricsCollector_new
    /\ throughput' = Some(ThroughputOfStreaming(ret.v, request.model))
    /\ UNCHANGED << response, consumed, call, spc, ret, request, sent >>
    /\ UNCHANGED << execVars, statsVars >>

\* benchmarks.rs 175-182: the caller was a task of the streaming latency
\* test, which hands what the call returned to its collector
CollectStreaming ==
    /\ spc = "returned"
    /\ throughput = None
    /\ collector = MetricsCollector_new
    /\ collector' = MergeStreaming(collector, ret.v)
    /\ UNCHANGED << supported_models, plan, phase, models_to_test, mi, all_results,
                    warmups_done, warm_errors, warm, semaphore, tasks, next_result,
                    calls, pc, exit >>
    /\ UNCHANGED << streamVars, statsVars >>

NextStream ==
    \/ SendFails
    \/ SendSucceeds
    \/ ReceiveItem
    \/ StreamCloses
    \/ Return
    \/ ThroughputTest
    \/ CollectStreaming

SpecStream == InitStream /\ [][NextStream]_vars

(***************************************************************************)
(* The statistics of a collector: metrics are appended in any order and    *)
(* the three calculate_*_stats are asked for one model (metrics.rs)        *)
(***************************************************************************)
MaxSamples == 4

StatsModels == {"m1", "m2"}

Ms(n) == from_millis(n)

\* LatencyMetric values a call can give: total duration and time to first
\* byte, 50 ms before the end for whole milliseconds.
Latency(total, model) ==
    [ total_duration |-> total, time_to_first_byte |-> total - Ms(50), model |-> model ]

LatencySamples ==
    { Latency(Ms(t), "m1") : t \in {100, 200, 300, 400, 2048} }
    \cup { [ total_duration |-> 1500, time_to_first_byte |-> 700, model |-> "m1" ],
           Latency(Ms(200), "m2") }

Streaming(total, ttfc, chunks, tokens, model) ==
    [ total_duration |-> total, time_to_first_chunk |-> ttfc, chunk_count |-> chunks,
      total_tokens |-> tokens, model |-> model ]

StreamingSamples ==
    { Streaming(Ms(1000), Some(Ms(100)), 2, 10, "m1"),
      Streaming(Ms(3000), Some(Ms(300)), 4, 30, "m1"),
      Streaming(0, Some(0), 1, 0, "m1"),
      Streaming(Ms(1000), None, 0, 0, "m1"),
      Streaming(Ms(1000), Some(Ms(100)), 2, 10, "m2") }

Throughput(successful, failed, tps, model) ==
    [ duration |-> Ms(1000) * (successful + failed),
      successful_requests |-> successful, failed_requests |-> failed,
      tokens_per_second |-> tps,
      requests_per_second |-> Ratio(successful, 1), model |-> model ]

ThroughputSamples ==
    { Throughput(1, 0, Ratio(5, 1), "m1"),
      Throughput(1, 0, Ratio(15, 1), "m1"),
      Throughput(0, 1, Ratio(0, 1), "m1"),
      Throughput(0, 0, Ratio(0, 1), "m1"),
      Throughput(1, 0, Ratio(5, 1), "m2") }

Appended ==
    Len(collector.latency_metrics) + Len(collector.streaming_metrics)
        + Len(collector.throughput_metrics) + Len(collector.errors)

InitStats ==
    /\ ExecIdle
    /\ StreamIdle
    /\ StatsIdle

AddLatencyMetric ==
    /\ Appended < MaxSamples
    /\ \E metric \in LatencySamples : collector' = add_latency_metric(collector, metric)
    /\ stats' = None
    /\ UNCHANGED << supported_models, plan, phase, models_to_test, mi, all_results,
                    warmups_done, warm_errors, warm, semaphore, tasks, next_result, calls, pc,
                    exit, streamVars >>

AddStreamingMetric ==
    /\ Appended < MaxSamples
    /\ \E metric \in StreamingSamples : collector' = add_streaming_metric(collector, metric)
    /\ stats' = None
    /\ UNCHANGED << supported_models, plan, phase, models_to_test, mi, all_results,
                    warmups_done, warm_errors, warm, semaphore, tasks, next_result, calls, pc,
                    exit, streamVars >>

AddThroughputMetric ==
    /\ Appended < MaxSamples
    /\ \E metric \in ThroughputSamples : collector' = add_throughput_metric(collector, metric)
    /\ stats' = None
    /\ UNCHANGED << supported_models, plan, phase, models_to_test, mi, all_results,
                    warmups_done, warm_errors, warm, semaphore, tasks, next_result, calls, pc,
                    exit, streamVars >>

AddError ==
    /\ Appended < MaxSamples
    /\ collector' = add_error(collector, "request failed")
    /\ stats' = None
    /\ UNCHANGED << supported_models, plan, phase, models_to_test, mi, all_results,
                    warmups_done, warm_errors, warm, semaphore, tasks, next_result, calls, pc,
                    exit, streamVars >>

\* The three statistics of one model are computed from the collector as it is.
CalculateStats ==
    /\ stats = None
    /\ \E model \in StatsModels :
         stats' = Some([ model |-> model,
                         latency |-> calculate_latency_stats(collector, model),
                         streaming |-> calculate_streaming_stats(collector, model),
                         throughput |-> calculate_throughput_stats(collector, model) ])
    /\ UNCHANGED << execVars, streamVars >>

NextStats ==
    \/ AddLatencyMetric
    \/ AddStreamingMetric
    \/ AddThroughputMetric
    \/ AddError
    \/ CalculateStats

SpecStats == InitStats /\ [][NextStats]_vars

(***************************************************************************)
(* Properties of the executor                                              *)
(***************************************************************************)
InFlight == {i \in 1..Len(tasks) : Outstanding(i)}

\* C1: in every state of a test run with concurrency C, at most C measured
\* requests are dispatched and not yet completed, and every one of them is
\* the request of a task that holds a permit.
C1_ConcurrencyBound ==
    /\ Cardinality(InFlight) <= config.concurrency
    /\ \A i \in InFlight : tasks[i].permit

\* C1 happens: as many requests in flight as there are permits, and a task
\* kept waiting for one.
C1_Witness ==
    /\ config.concurrency >= 1
    /\ Cardinality(InFlight) = config.concurrency
    /\ \E i \in 1..Len(tasks) : tasks[i].st = "waiting"

NamesUnsupported(cfg) ==
    \E i \in 1..Len(cfg.model) : ~Contains(supported_models, cfg.model[i])

\* C2: when the config names a model that is not in the supported list, the
\* benchmark returns the "not supported" error and the transport receives no
\* call at all, also for supported models named before the unsupported one.
C2_UnsupportedModelRejected ==
    NamesUnsupported(config) =>
        /\ calls = 0
        /\ ~warm.some
        /\ tasks = <<>>
        /\ pc \in {"call", "exit"}
        /\ pc = "exit" => (exit.some /\ ~exit.v.ok)

\* C2 happens: a supported model followed by an unsupported one was rejected.
C2_Witness ==
    /\ pc = "exit"
    /\ config.model = <<"m1", "bad">>
    /\ exit = Some(Err("Model is not supported"))
    /\ calls = 0

\* The merge loop of the current test has read every result.
Merged == pc = "merge" /\ next_result > Len(tasks)

LatencyTest == Test \in {"regular_latency", "streaming_latency"}

\* The first item at which a consumer must stop: the first stream error or
\* [DONE]; one past the end when the stream just closes.
StopAt(stream) ==
    LET stops == {i \in 1..Len(stream) : stream[i].err \/ stream[i].kind = "done"}
    IN  IF stops = {} THEN Len(stream) + 1
        ELSE CHOOSE i \in stops : \A j \in stops : i <= j

EndsInError(stream) == StopAt(stream) <= Len(stream) /\ stream[StopAt(stream)].err
EndsInDone(stream) == StopAt(stream) <= Len(stream) /\ ~stream[StopAt(stream)].err

\* The events received before the stream terminated.
EventsReceived(stream) ==
    IF EndsInDone(stream) THEN StopAt(stream) ELSE StopAt(stream) - 1

\* A task's request failed: it panicked, the HTTP exchange failed, or the
\* stream failed (a transport-level stream error, or no event at all).
RequestFailed(task) ==
    \/ task.panicked
    \/ task.answer.http # "ok"
    \/ /\ task.test # "regular_latency"
       /\ \/ EndsInError(task.answer.stream)
          \/ EventsReceived(task.answer.stream) = 0

FailedTasks == {i \in 1..Len(tasks) : RequestFailed(tasks[i])}

MetricCount ==
    Len(collector.latency_metrics) + Len(collector.streaming_metrics)
        + Len(collector.throughput_metrics)

\* C3: after the barrier of a latency test of N tasks every task has given
\* exactly one outcome, a metric when its request succeeded and an error
\* string when it failed (HTTP failure, stream failure, panic), so that
\* metrics + errors = N.
C3_OneOutcomePerTask ==
    (Merged /\ LatencyTest) =>
        /\ MetricCount + Len(collector.errors) = TaskCount
        /\ Len(collector.errors) = Cardinality(FailedTasks)

\* The part of C3 the code keeps: one outcome per task, whatever it is.
C3_OutcomesAddUp ==
    (Merged /\ LatencyTest) => MetricCount + Len(collector.errors) = TaskCount

\* C4: with every call returning and fair scheduling, the benchmark returns.
C4_AlwaysReturns == <>(pc = "exit")

\* C9: the collector is appended to, and the statistics are computed, only
\* when no task of the test is still to complete.
C9_PostBarrierMerge ==
    [][ (collector' # collector \/ (pc = "merge" /\ pc' = "models"))
            => \A i \in 1..Len(tasks) : Completed(i) ]_vars

\* C9 happens: the first of two results is merged, after both tasks completed.
C9_Witness ==
    /\ pc = "merge"
    /\ Len(tasks) = 2
    /\ next_result = 2
    /\ MetricCount + Len(collector.errors) = 1

OutstandingRequests ==
    { [tag |-> tasks[i].tag, kind |-> "measured"] : i \in InFlight }
    \cup (IF warm.some THEN {[tag |-> warm.v, kind |-> "warm_up"]} ELSE {})

\* C10: all outstanding requests, warm-up or measured, are of one kind and
\* belong to the benchmark and the model the runner is at.
C10_OnePhaseAtATime ==
    /\ \A r \in OutstandingRequests : r.tag.phase = phase /\ r.tag.mi = mi
    /\ \A r, q \in OutstandingRequests : r = q

\* C10 happens: two measured requests in flight for the second model of a
\* later benchmark, after the requests of everything before have completed.
C10_Witness ==
    /\ phase = 2
    /\ mi = 2
    /\ Cardinality(InFlight) = 2
    /\ calls > 4

(***************************************************************************)
(* Properties of the streaming call                                        *)
(***************************************************************************)
Returned == spc = "returned" /\ response.http = "ok"

\* C5: a call whose stream ends, by close or by error, before any event was
\* received fails, though the HTTP status was a success.
C5_ZeroEventsIsFailure ==
    (Returned /\ EventsReceived(response.stream) = 0) => ~ret.v.ok

\* C5 happens: the stream's first item was a transport error.
C5_Witness ==
    /\ Returned
    /\ response.stream = <<StreamErr, EvAbcd>>
    /\ ~ret.v.ok

\* C6: a call whose stream yields a transport error, after any number of
\* events, returns an error and no metric.
C6_StreamErrorSurfaces ==
    (Returned /\ EndsInError(response.stream)) => ~ret.v.ok

\* The tokens of the events parsed before the stop, as the code counts them.
RECURSIVE SumDataTokens(_)
SumDataTokens(events) ==
    IF events = <<>> THEN 0
    ELSE (IF Head(events).kind = "json" THEN DataTokens(Head(events)) ELSE 0)
             + SumDataTokens(Tail(events))

\* The explicit completion-token counts the events carry, in order.
RECURSIVE UsageCounts(_)
UsageCounts(events) ==
    IF events = <<>> THEN <<>>
    ELSE (IF /\ Head(events).kind = "json"
             /\ Head(events).usage.some
             /\ Head(events).usage.v.completion_tokens.some
          THEN <<Head(events).usage.v.completion_tokens.v>>
          ELSE <<>>) \o UsageCounts(Tail(events))

Parsed(stream) == SubSeq(stream, 1, StopAt(stream) - 1)

TokensBefore(stream) ==
    LET counts == UsageCounts(Parsed(stream)) IN
    IF counts # <<>> THEN counts[Len(counts)] ELSE SumDataTokens(Parsed(stream))

\* C7: the consumer stops at the first [DONE]: the call succeeds, [DONE] is
\* the last event counted and adds no tokens, and nothing after it is read.
C7_DoneStopsConsumer ==
    /\ consumed <= StopAt(response.stream)
    /\ (Returned /\ EndsInDone(response.stream)) =>
           /\ ret.v.ok
           /\ consumed = StopAt(response.stream)
           /\ ret.v.v.chunk_count = StopAt(response.stream)
           /\ ret.v.v.total_tokens = TokensBefore(response.stream)

\* C7 happens: a stream of [DONE] alone with events behind it.
C7_Witness ==
    /\ Returned
    /\ response.stream = <<EvDone, EvAbcd, EvDone>>
    /\ ret.v.ok
    /\ ret.v.v.chunk_count = 1
    /\ ret.v.v.total_tokens = 0

\* ceil(characterCount / 4) of one choice's delta content
CharTokens(choice) ==
    IF choice.delta.some /\ choice.delta.v.content.some
    THEN CeilDiv(CharCount(choice.delta.v.content.v), 4)
    ELSE 0

RECURSIVE SumCharTokens(_)
SumCharTokens(choices) ==
    IF choices = <<>> THEN 0
    ELSE CharTokens(Head(choices)) + SumCharTokens(Tail(choices))

RECURSIVE HeuristicSum(_)
HeuristicSum(events) ==
    IF events = <<>> THEN 0
    ELSE (IF Head(events).kind = "json" /\ Head(events).choices.some
          THEN SumCharTokens(Head(events).choices.v) ELSE 0)
             + HeuristicSum(Tail(events))

\* C8: the returned totalTokens is the last explicit usage count when a
\* consumed event carries one, and else the sum over the consumed events and
\* their choices of ceil(characterCount / 4).
C8_TotalTokens ==
    (Returned /\ ret.v.ok) =>
        LET counts == UsageCounts(Parsed(response.stream)) IN
        ret.v.v.total_tokens =
            IF counts # <<>> THEN counts[Len(counts)]
            ELSE HeuristicSum(Parsed(response.stream))

(***************************************************************************)
(* run_comprehensive_benchmark and failures (C11 - C14)                     *)
(***************************************************************************)
IsComprehensive == Len(plan) = 3

PhaseOrder == << "regular_latency", "streaming_latency", "streaming_throughput" >>

\* C11: run_comprehensive_benchmark runs non-streaming latency, streaming
\* latency and throughput in this order, each once: the runner's benchmark
\* and every task are of the kind of their place in the order, outstanding
\* requests belong to the benchmark the runner is at, the runner moves to the
\* next benchmark only when no request is outstanding, one benchmark at a
\* time, and it returns after the third.
C11_FixedPhaseOrder ==
    /\ [](IsComprehensive =>
            /\ phase \in 1..3
            /\ Test = PhaseOrder[phase]
            /\ \A i \in 1..Len(tasks) :
                   /\ tasks[i].tag.phase = phase
                   /\ tasks[i].test = PhaseOrder[phase]
            /\ \A r \in OutstandingRequests : r.tag.phase = phase
            /\ pc = "exit" => phase = 3)
    /\ [][ IsComprehensive =>
             \/ phase' = phase
             \/ phase' = phase + 1 /\ OutstandingRequests = {} /\ tasks' = <<>> ]_vars

\* C11 happens: a request of the throughput benchmark, the third, is in flight.
C11_Witness ==
    /\ IsComprehensive
    /\ phase = 3
    /\ InFlight # {}
    /\ \A i \in InFlight : tasks[i].test = "streaming_throughput"

\* The runner is at the return of the benchmark it is in.
BenchmarkReturns == pc = "models" /\ mi > Len(models_to_test)

\* C12: in run_comprehensive_benchmark a benchmark that returns, whatever
\* its results, is followed by the next benchmark: the comprehensive run
\* ends only after the throughput benchmark, and with success.
C12_FailureDoesNotAbort ==
    /\ []((IsComprehensive /\ pc = "exit") => (phase = 3 /\ exit = Some(Ok("done"))))
    /\ [][ (IsComprehensive /\ BenchmarkReturns /\ phase < 3 /\ pc' # pc)
             => (phase' = phase + 1 /\ pc' = "call") ]_vars

\* C12 happens: the throughput benchmark is entered after a streaming latency
\* benchmark in which both models were measured and gave no statistics.
C12_Witness ==
    /\ IsComprehensive
    /\ phase = 3
    /\ pc = "call"
    /\ all_results = {}
    /\ plan[2].config.requests.v >= 1
    /\ Len(models_to_test) = 2

\* A request failed as the error taxonomy lists it: non-success status or
\* network failure or malformed body (the HTTP exchange failed), or a
\* streaming call that received no event.
FailedRequest(task) ==
    \/ task.answer.http # "ok"
    \/ task.test # "regular_latency" /\ EventsReceived(task.answer.stream) = 0

FailedRequests == {i \in 1..Len(tasks) : ~tasks[i].panicked /\ FailedRequest(tasks[i])}
PanickedTasks == {i \in 1..Len(tasks) : tasks[i].panicked}

C14_LatencyWitness ==
    /\ Merged
    /\ LatencyTest
    /\ Cardinality(FailedRequests) = 1
    /\ Len(collector.errors) = 1
    /\ MetricCount = 1

(***************************************************************************)
(* Statistics (C15 - C20)                                                  *)
(***************************************************************************)
OfModel(metrics, model) == SelectSeq(metrics, LAMBDA metric : metric.model = model)

\* The samples of the model the statistics were asked for, in append order.
LatencyOfModel == OfModel(collector.latency_metrics, stats.v.model)
StreamingOfModel == OfModel(collector.streaming_metrics, stats.v.model)
ThroughputOfModel == OfModel(collector.throughput_metrics, stats.v.model)

\* Their total durations and times to first byte in whole milliseconds.
TotalMs == [i \in 1..Len(LatencyOfModel) |-> LatencyOfModel[i].total_duration \div 1000]
TtfbMs == [i \in 1..Len(LatencyOfModel) |-> LatencyOfModel[i].time_to_first_byte \div 1000]

Total(values) == IF values = <<>> THEN 0 ELSE Head(values) + SumSeq(Tail(values))
Smallest(values) == CHOOSE x \in {values[i] : i \in 1..Len(values)} :
                        \A i \in 1..Len(values) : x <= values[i]
Largest(values) == CHOOSE x \in {values[i] : i \in 1..Len(values)} :
                       \A i \in 1..Len(values) : x >= values[i]
Ascending(values) == SortSeq(values, LAMBDA a, b : a < b)

HasLatencyStats == stats.some /\ stats.v.latency.some
HasStreamingStats == stats.some /\ stats.v.streaming.some
HasThroughputStats == stats.some /\ stats.v.throughput.some

\* What C15 says of min, max, count and of its example.
C15_MinMaxCountExample ==
    LET ls == stats.v.latency.v IN
    /\ Len(LatencyOfModel) >= 1
    /\ ls.request_count = Len(LatencyOfModel)
    /\ ls.min_latency = Smallest(TotalMs) * 1000
    /\ ls.max_latency = Largest(TotalMs) * 1000
    /\ Ascending(TotalMs) = <<100, 200, 300, 400>> =>
           /\ ls.mean_latency = 250 * 1000
           /\ ls.min_latency = 100 * 1000
           /\ ls.max_latency = 400 * 1000
           /\ ls.p50_latency \in {200 * 1000, 300 * 1000}

\* C15 as stated: min, max, count, the example, and mean_latency is the
\* arithmetic mean of the total durations (in ms): mean * n = sum.
C15_MeanIsArithmeticMean ==
    HasLatencyStats =>
        /\ C15_MinMaxCountExample
        /\ stats.v.latency.v.mean_latency * Len(TotalMs) = Total(TotalMs) * 1000

\* C15: min_latency and max_latency are the smallest and largest total
\* duration in ms, request_count is n, 100, 200, 300, 400 ms give mean 250,
\* min 100, max 400 and p50 in {200, 300}, and mean_latency is the arithmetic
\* mean of the durations in ms rounded down to a whole millisecond.
C15_MeanIsRoundedDown ==
    HasLatencyStats =>
        /\ C15_MinMaxCountExample
        /\ LET mean_ms == stats.v.latency.v.mean_latency \div 1000 IN
           /\ stats.v.latency.v.mean_latency = mean_ms * 1000
           /\ mean_ms * Len(TotalMs) <= Total(TotalMs)
           /\ Total(TotalMs) < (mean_ms + 1) * Len(TotalMs)

\* C15 happens: the statistics of the samples 100, 200, 300, 400 ms, appended
\* in another order.
C15_Witness ==
    /\ HasLatencyStats
    /\ TotalMs = <<300, 100, 400, 200>>
    /\ stats.v.latency.v.mean_latency = 250 * 1000
    /\ stats.v.latency.v.p50_latency = 200 * 1000

\* C16: for at least one latency sample, min <= mean <= max and
\* p50 <= p95 <= p99.
C16_OrderedStatistics ==
    HasLatencyStats =>
        LET ls == stats.v.latency.v IN
        /\ ls.min_latency <= ls.mean_latency
        /\ ls.mean_latency <= ls.max_latency
        /\ ls.p50_latency <= ls.p95_latency
        /\ ls.p95_latency <= ls.p99_latency

\* C16 happens: samples for which the inequalities are strict where the
\* sample count allows it.
C16_Witness ==
    /\ HasLatencyStats
    /\ Len(LatencyOfModel) = 3
    /\ stats.v.latency.v.min_latency < stats.v.latency.v.mean_latency
    /\ stats.v.latency.v.mean_latency < stats.v.latency.v.max_latency
    /\ stats.v.latency.v.p50_latency < stats.v.latency.v.p95_latency

Successful == SumField(ThroughputOfModel, "successful_requests")
Failed == SumField(ThroughputOfModel, "failed_requests")

\* What C17 says of the value of the rate: in [0, 100], successful / total *
\* 100 for a positive total, 0 for a total of 0, and 0 exactly when no
\* request succeeded.
C17_RateValue ==
    LET rate == stats.v.throughput.v.success_rate IN
    /\ rate.den > 0
    /\ 0 <= rate.num
    /\ rate.num <= 100 * rate.den
    /\ Successful + Failed > 0 =>
           rate.num * (Successful + Failed) = Successful * 100 * rate.den
    /\ Successful + Failed = 0 => rate.num = 0
    /\ rate.num = 0 <=> Successful = 0

\* C17 as stated: the rate is 100 exactly when no request failed.
C17_FullExactlyWhenNoneFailed ==
    HasThroughputStats =>
        /\ C17_RateValue
        /\ LET rate == stats.v.throughput.v.success_rate IN
           rate.num = 100 * rate.den <=> Failed = 0

\* C17: the success rate is in [0, 100], is successful / (successful +
\* failed) * 100 for a positive total and 0 for a total of 0, is 0 exactly
\* when no request succeeded, and is 100 exactly when no request failed and
\* at least one request was made.
C17_SuccessRate ==
    HasThroughputStats =>
        /\ C17_RateValue
        /\ LET rate == stats.v.throughput.v.success_rate IN
           rate.num = 100 * rate.den <=> (Failed = 0 /\ Successful + Failed > 0)

\* C17 happens: two of three requests succeeded.
C17_Witness ==
    /\ HasThroughputStats
    /\ Successful = 2
    /\ Failed = 1
    /\ stats.v.throughput.v.success_rate = Ratio(200, 3)

\* C17's total of 0: metrics that count no request.
C17_ZeroTotalWitness ==
    /\ HasThroughputStats
    /\ Successful + Failed = 0
    /\ stats.v.throughput.v.success_rate = Ratio(0, 1)

\* C18: p95_ttfb is the element at index min(floor(n * 95 / 100), n - 1),
\* counted from 0, of the TTFB samples in ascending order.
C18_P95TtfbOfSorted ==
    HasLatencyStats =>
        LET n == Len(TtfbMs)
            index == IF (n * 95) \div 100 < n - 1 THEN (n * 95) \div 100 ELSE n - 1
        IN  stats.v.latency.v.p95_ttfb = Ascending(TtfbMs)[index + 1] * 1000

\* The part of C18 and C19 the code keeps: the index is in range, so that
\* p95_ttfb is one of the TTFB samples and p95 time-to-first-chunk is one of
\* the first-chunk samples when there is one.
C18_P95TtfbIsASample ==
    /\ HasLatencyStats =>
           \E i \in 1..Len(TtfbMs) : stats.v.latency.v.p95_ttfb = TtfbMs[i] * 1000
    /\ HasStreamingStats =>
           \/ \A i \in 1..Len(StreamingOfModel) :
                  ~StreamingOfModel[i].time_to_first_chunk.some
           \/ \E i \in 1..Len(StreamingOfModel) :
                  /\ StreamingOfModel[i].time_to_first_chunk.some
                  /\ stats.v.streaming.v.p95_time_to_first_chunk
                         = StreamingOfModel[i].time_to_first_chunk.v

\* C19: with exactly one sample of a model every reported percentile is that
\* sample (the latencies and TTFB in ms), and a percentile is never a
\* default value when there are samples.
C19_OneSamplePercentiles ==
    /\ C18_P95TtfbIsASample
    /\ (HasLatencyStats /\ Len(LatencyOfModel) = 1) =>
           LET ls == stats.v.latency.v IN
           /\ ls.p50_latency = TotalMs[1] * 1000
           /\ ls.p95_latency = TotalMs[1] * 1000
           /\ ls.p99_latency = TotalMs[1] * 1000
           /\ ls.p95_ttfb = TtfbMs[1] * 1000
    /\ (HasStreamingStats /\ Len(StreamingOfModel) = 1
          /\ StreamingOfModel[1].time_to_first_chunk.some) =>
           stats.v.streaming.v.p95_time_to_first_chunk
               = StreamingOfModel[1].time_to_first_chunk.v

Tokens == SumField(StreamingOfModel, "total_tokens")
Duration == SumField(StreamingOfModel, "total_duration")

\* C20: the streaming mean tokens per second is sum(totalTokens) over
\* sum(totalDuration) in seconds, and 0 when the summed duration is 0; the
\* samples (10 tokens, 1 s) and (30 tokens, 3 s) give 10.
C20_DurationWeightedMean ==
    HasStreamingStats =>
        LET mean == stats.v.streaming.v.mean_tokens_per_second IN
        /\ mean.den > 0
        /\ Duration = 0 => mean.num = 0
        /\ Duration > 0 => mean.num * Duration = Tokens * 1000000 * mean.den
        /\ { [tokens |-> StreamingOfModel[i].total_tokens,
              micros |-> StreamingOfModel[i].total_duration] :
                 i \in 1..Len(StreamingOfModel) }
             = { [tokens |-> 10, micros |-> 1000000], [tokens |-> 30, micros |-> 3000000] }
           /\ Len(StreamingOfModel) = 2
           => mean = Ratio(10, 1)

\* C20 happens: a sample of 10 tokens in 1 s and one of no token in no time,
\* whose own rates 10 and 0 have the mean 5, give 10.
C20_Witness ==
    /\ HasStreamingStats
    /\ Len(StreamingOfModel) = 2
    /\ Tokens = 10
    /\ Duration = 1000000
    /\ stats.v.streaming.v.mean_tokens_per_second = Ratio(10, 1)

\* C20's example happens.
C20_ExampleWitness ==
    /\ HasStreamingStats
    /\ Len(StreamingOfModel) = 2
    /\ Tokens = 40
    /\ Duration = 4000000
    /\ stats.v.streaming.v.mean_tokens_per_second = Ratio(10, 1)

(***************************************************************************)
(* Statistics (C21 - C23)                                                  *)
(***************************************************************************)
\* The product of the denominators of the samples' rates, and the sum of the
\* rates as a numerator over that product.
RECURSIVE CommonDen(_, _)
CommonDen(metrics, f) ==
    IF metrics = <<>> THEN 1 ELSE Head(metrics)[f].den * CommonDen(Tail(metrics), f)

RECURSIVE NumOver(_, _, _)
NumOver(metrics, f, den) ==
    IF metrics = <<>> THEN 0
    ELSE Head(metrics)[f].num * (den \div Head(metrics)[f].den)
            + NumOver(Tail(metrics), f, den)

IsSampleMean(mean, metrics, f) ==
    /\ mean.den > 0
    /\ mean.num * Len(metrics) * CommonDen(metrics, f)
           = mean.den * NumOver(metrics, f, CommonDen(metrics, f))

\* C21: the throughput mean tokens per second and mean requests per second
\* are the sum of the samples' own rates over the number of samples; two
\* samples with rates 5 and 15 give 10.
C21_SampleMeans ==
    HasThroughputStats =>
        /\ IsSampleMean(stats.v.throughput.v.mean_tokens_per_second,
                        ThroughputOfModel, "tokens_per_second")
        /\ IsSampleMean(stats.v.throughput.v.mean_requests_per_second,
                        ThroughputOfModel, "requests_per_second")
        /\ (/\ Len(ThroughputOfModel) = 2
            /\ {ThroughputOfModel[1].tokens_per_second, ThroughputOfModel[2].tokens_per_second}
                   = {Ratio(5, 1), Ratio(15, 1)})
               => stats.v.throughput.v.mean_tokens_per_second = Ratio(10, 1)

\* C21 happens: the rates 15, 5 and the rate 0 of a failed request give 20/3.
C21_Witness ==
    /\ HasThroughputStats
    /\ Len(ThroughputOfModel) = 3
    /\ Failed = 1
    /\ stats.v.throughput.v.mean_tokens_per_second = Ratio(20, 3)
    /\ stats.v.throughput.v.mean_requests_per_second = Ratio(2, 3)

\* C21's example happens.
C21_ExampleWitness ==
    /\ HasThroughputStats
    /\ Len(ThroughputOfModel) = 2
    /\ ThroughputOfModel[1].tokens_per_second = Ratio(15, 1)
    /\ ThroughputOfModel[2].tokens_per_second = Ratio(5, 1)
    /\ stats.v.throughput.v.mean_tokens_per_second = Ratio(10, 1)

\* The collector with only the metrics of one model, and without errors.
OnlyModel(c, model) ==
    [ latency_metrics |-> OfModel(c.latency_metrics, model),
      streaming_metrics |-> OfModel(c.streaming_metrics, model),
      throughput_metrics |-> OfModel(c.throughput_metrics, model),
      errors |-> <<>> ]

AllStats(c, model) ==
    << calculate_latency_stats(c, model), calculate_streaming_stats(c, model),
       calculate_throughput_stats(c, model) >>

\* C22: each calculate_*_stats(m) is what the metrics of m alone give, there
\* is no data exactly when there is no metric of that kind for m, appending
\* a metric of another model or an error string changes no statistics of m,
\* and computing statistics leaves the collector as it is.
C22_PartitionedByModel ==
    /\ [](stats.some =>
            /\ << stats.v.latency, stats.v.streaming, stats.v.throughput >>
                   = AllStats(OnlyModel(collector, stats.v.model), stats.v.model)
            /\ stats.v.latency.some <=> LatencyOfModel # <<>>
            /\ stats.v.streaming.some <=> StreamingOfModel # <<>>
            /\ stats.v.throughput.some <=> ThroughputOfModel # <<>>)
    /\ [][ /\ \A m \in StatsModels :
                OnlyModel(collector', m) = OnlyModel(collector, m)
                    => AllStats(collector', m) = AllStats(collector, m)
           /\ stats'.some => collector' = collector ]_vars

\* C22 happens: statistics of m1 from a collector that also holds a latency
\* metric of m2 and an error string.
C22_Witness ==
    /\ stats.some
    /\ stats.v.model = "m1"
    /\ Len(LatencyOfModel) = 2
    /\ Len(collector.latency_metrics) = 3
    /\ Len(collector.errors) = 1
    /\ stats.v.latency.v.request_count = 2
    /\ ~stats.v.streaming.some

\* The metrics of the model the statistics were asked for, in one fixed order
\* whatever the order they were appended in.
Canonical(c, model) ==
    [ latency_metrics |->
          SortSeq(OfModel(c.latency_metrics, model),
                  LAMBDA a, b : a.total_duration < b.total_duration),
      streaming_metrics |->
          SortSeq(OfModel(c.streaming_metrics, model),
                  LAMBDA a, b : \/ a.total_duration < b.total_duration
                                \/ /\ a.total_duration = b.total_duration
                                   /\ a.chunk_count < b.chunk_count),
      throughput_metrics |->
          SortSeq(OfModel(c.throughput_metrics, model),
                  LAMBDA a, b : \/ a.tokens_per_second.num < b.tokens_per_second.num
                                \/ /\ a.tokens_per_second.num = b.tokens_per_second.num
                                   /\ a.failed_requests < b.failed_requests),
      errors |-> <<>> ]

\* C23: the statistics do not depend on the order of the appends: they are
\* those of the same metrics appended in the fixed order, in every field.
C23_OrderInsensitive ==
    stats.some =>
        << stats.v.latency, stats.v.streaming, stats.v.throughput >>
            = AllStats(Canonical(collector, stats.v.model), stats.v.model)

\* The part of C23 the code keeps: every field but p95_ttfb.
C23_OrderInsensitiveButP95Ttfb ==
    stats.some =>
        LET fixed == AllStats(Canonical(collector, stats.v.model), stats.v.model) IN
        /\ stats.v.streaming = fixed[2]
        /\ stats.v.throughput = fixed[3]
        /\ stats.v.latency.some = fixed[1].some
        /\ stats.v.latency.some =>
               [stats.v.latency.v EXCEPT !.p95_ttfb = 0] = [fixed[1].v EXCEPT !.p95_ttfb = 0]

(***************************************************************************)
(* Models, request counts, warm-up (C24 - C27)                             *)
(***************************************************************************)
\* The benchmark the runner is at has chosen its models and not failed.
InBenchmark == pc \in {"models", "warm_up", "spawn", "merge"} \/ (pc = "exit" /\ exit.v.ok)

SinglePlan == Len(plan) = 1

\* The runner covers `expected`, in this order: it loops over that list, every
\* outstanding request is for the model at the runner's place in it, and a
\* benchmark run alone has, at its return, sent the warm-up and the measured
\* requests of every model of it.
Covers(expected) ==
    /\ models_to_test = expected
    /\ \A r \in OutstandingRequests : r.tag.model = expected[r.tag.mi]
    /\ (SinglePlan /\ pc = "exit") => calls = Len(expected) * (WARMUPS + TaskCount)

C24_LatencyWitness ==
    /\ Len(supported_models) = 6
    /\ LatencyTest
    /\ mi = 6
    /\ InFlight # {}

\* The statistics the throughput test is about to return.
ThroughputStatsNow == calculate_throughput_stats(collector, current_model)

\* In streaming throughput mode `concurrency` tasks were spawned for the
\* model, all of the throughput kind, and every metric counts one request.
OneRequestPerWorker ==
    /\ Len(tasks) = config.concurrency
    /\ config.requests = Some(config.concurrency)
    /\ \A i \in 1..Len(tasks) : tasks[i].test = "streaming_throughput"
    /\ \A k \in 1..Len(collector.throughput_metrics) :
           collector.throughput_metrics[k].successful_requests
               + collector.throughput_metrics[k].failed_requests = 1

\* C25 as stated: every worker contributes one ThroughputMetric and the
\* statistics report total_requests = successful + failed = concurrency.
C25_RequestCountIsConcurrency ==
    (Merged /\ Test = "streaming_throughput") =>
        /\ OneRequestPerWorker
        /\ Len(collector.throughput_metrics) = config.concurrency
        /\ ThroughputStatsNow.some =>
               /\ ThroughputStatsNow.v.total_requests = config.concurrency
               /\ ThroughputStatsNow.v.successful_requests
                      + ThroughputStatsNow.v.failed_requests = config.concurrency

\* C25: in streaming throughput mode `concurrency` requests are spawned per
\* model, one per worker; every worker that does not panic contributes one
\* ThroughputMetric with successful_requests + failed_requests = 1 and a
\* panicked worker one error string, so that the statistics report
\* total_requests = successful + failed = concurrency less the panicked.
C25_OneMetricPerFinishedWorker ==
    (Merged /\ Test = "streaming_throughput") =>
        /\ OneRequestPerWorker
        /\ Len(collector.throughput_metrics)
               = config.concurrency - Cardinality(PanickedTasks)
        /\ Len(collector.errors) = Cardinality(PanickedTasks)
        /\ ThroughputStatsNow.some =>
               /\ ThroughputStatsNow.v.total_requests
                      = config.concurrency - Cardinality(PanickedTasks)
               /\ ThroughputStatsNow.v.successful_requests
                      + ThroughputStatsNow.v.failed_requests
                      = ThroughputStatsNow.v.total_requests

\* C25 happens: two workers, one succeeded and one failed, no panic.
C25_Witness ==
    /\ Merged
    /\ Test = "streaming_throughput"
    /\ config.concurrency = 2
    /\ PanickedTasks = {}
    /\ ThroughputStatsNow.some
    /\ ThroughputStatsNow.v.total_requests = 2
    /\ ThroughputStatsNow.v.successful_requests = 1
    /\ ThroughputStatsNow.v.failed_requests = 1

Measured == throughput.some /\ ret.v.ok

\* total_tokens / seconds as an equation between whole numbers
IsPerSecond(rate, count, micros) ==
    /\ rate.den > 0
    /\ rate.num * micros = count * MicrosPerSec * rate.den

\* C26: the ThroughputMetric of a successful streaming throughput request has
\* duration = total_duration - time_to_first_chunk, which is never negative,
\* tokens_per_second = total_tokens over that duration in seconds (0 when
\* that duration is 0) and requests_per_second = 1 over the end-to-end
\* total_duration in seconds.
C26_GenerationSpeed ==
    Measured =>
        LET sm == ret.v.v
            tm == throughput.v.v
            gen == sm.total_duration - sm.time_to_first_chunk.v
        IN  /\ throughput.v.ok
            /\ sm.time_to_first_chunk.some
            /\ gen >= 0
            /\ tm.duration = gen
            /\ tm.successful_requests = 1 /\ tm.failed_requests = 0
            /\ IF gen = 0 THEN tm.tokens_per_second = Ratio(0, 1)
               ELSE IsPerSecond(tm.tokens_per_second, sm.total_tokens, gen)
            /\ IF sm.total_duration = 0 THEN tm.requests_per_second = Ratio(0, 1)
               ELSE IsPerSecond(tm.requests_per_second, 1, sm.total_duration)

\* A measured call whose first chunk came after some time and before the end
C26_Witness ==
    /\ Measured
    /\ ret.v.v.time_to_first_chunk.v > 0
    /\ ret.v.v.total_duration > ret.v.v.time_to_first_chunk.v
    /\ ret.v.v.total_tokens > 0
    /\ throughput.v.v.tokens_per_second # throughput.v.v.requests_per_second

\* A measured call whose first chunk was also the end of the call
C26_ZeroGenerationWitness ==
    /\ Measured
    /\ ret.v.v.total_tokens > 0
    /\ ret.v.v.total_duration = ret.v.v.time_to_first_chunk.v
    /\ ret.v.v.total_duration > 0

\* C27: the warm-up calls of a model, WARMUPS of them, are made one after
\* another and have all returned before a measured request of that model
\* exists; what a warm-up call returned never reaches the collector or the
\* results, and the measured test starts whatever the warm-up calls returned.
\* A warm-up call is a streaming call exactly when the measured requests are.
C27_WarmUpFirst ==
    /\ [](warm.some => (warm.v.streaming <=> Test # "regular_latency"))
    /\ [](warmups_done <= WARMUPS /\ warm_errors <= warmups_done)
    /\ [](tasks # <<>> => warmups_done = WARMUPS /\ ~warm.some)
    /\ [](pc = "warm_up" => MetricCount + Len(collector.errors) = 0)
    /\ [](pc = "warm_up" /\ warmups_done = WARMUPS /\ ~warm.some => ENABLED StartTest)
    /\ [][warmups_done' = warmups_done + 1 => ~warm.some /\ warm'.some]_vars
    /\ [][warm # warm' => collector' = collector /\ all_results' = all_results]_vars

\* Every warm-up call of the second model failed, and its measured requests
\* are in flight.
C27_Witness ==
    /\ mi = 2
    /\ warm_errors = WARMUPS
    /\ InFlight # {}

\* After a failed warm-up call the test of the model collected a metric.
C27_MetricWitness ==
    /\ warm_errors > 0
    /\ pc = "merge"
    /\ MetricCount > 0

\* The client call a task of a test makes is a streaming one
IsStreamingTest(test) == test \in {"streaming_latency", "streaming_throughput"}

\* C29: in a throughput benchmark, which main starts with a duration, there
\* are `concurrency` workers, the requests a worker issues are non-streaming,
\* and a worker that finished contributes one ThroughputMetric whose
\* successful and failed counts total the requests it issued.
C29_DurationBoundedWorkers ==
    (InBenchmark /\ plan[phase].op = "run_throughput_benchmark") =>
        /\ Len(tasks) <= config.concurrency
        /\ \A i \in 1..Len(tasks) :
               /\ Outstanding(i) => ~IsStreamingTest(tasks[i].test)
               /\ (Completed(i) /\ ~tasks[i].panicked) =>
                      LET m == TaskOutput(tasks[i]).v.v IN
                      m.successful_requests + m.failed_requests = 1

(***************************************************************************)
(* The request of a streaming call (C28)                                   *)
(***************************************************************************)
RequestFields == {"messages", "model", "max_completion_tokens", "stream", "stream_options"}

\* C28: a streaming call leaves the caller's request as it was and sends a
\* copy that differs from it in stream (Some(true), whatever the template
\* had) and stream_options (include_usage: true) only; model, messages and
\* max_completion_tokens are sent unchanged, and every call that reached the
\* transport asked for usage accounting.
C28_SendsStreamingCopy ==
    /\ [][request' = request]_vars
    /\ [](spc # "send" => sent.some)
    /\ [](sent.some =>
            /\ DOMAIN sent.v = RequestFields
            /\ \A f \in RequestFields \ {"stream", "stream_options"} :
                   sent.v[f] = request[f]
            /\ sent.v.stream = Some(TRUE)
            /\ sent.v.stream_options = Some([include_usage |-> TRUE]))

\* A call made with a template that did not ask for streaming has returned
C28_Witness ==
    /\ spc = "returned"
    /\ request.stream = None
    /\ sent.some
    /\ sent.v # request
    /\ ret.v.ok

(***************************************************************************)
(* Events with missing fields (C30)                                        *)
(***************************************************************************)
NextItem == response.stream[consumed + 1]
Received == consumed' = consumed + 1

HasContent(item) ==
    /\ item.kind = "json"
    /\ item.choices.some
    /\ \E i \in 1..Len(item.choices.v) :
           /\ item.choices.v[i].delta.some
           /\ item.choices.v[i].delta.v.content.some

HasUsageCount(item) ==
    /\ item.kind = "json"
    /\ item.usage.some
    /\ item.usage.v.completion_tokens.some

\* An event that is not [DONE] and has nothing to count
Hollow(item) ==
    /\ ~item.err
    /\ item.kind # "done"
    /\ ~HasContent(item)
    /\ ~HasUsageCount(item)

\* C30: an event that is not [DONE] is never an error, whatever its payload
\* lacks: it is counted in chunk_count, sets time_to_first_chunk if it is the
\* first, and the loop goes on; without content in a choice's delta it adds
\* nothing to total_tokens, without a usage count it leaves the usage as it
\* was; a stream of such events only makes a successful call of 0 tokens.
C30_MissingFieldsTolerated ==
    /\ [][(Received /\ ~NextItem.err /\ NextItem.kind # "done") =>
            /\ call'.metric.chunk_count = call.metric.chunk_count + 1
            /\ call'.metric.time_to_first_chunk =
                   IF call.first_chunk_received
                   THEN call.metric.time_to_first_chunk
                   ELSE Some(call'.now)
            /\ call'.first_chunk_received
            /\ ~call'.brk
            /\ spc' = "loop"
            /\ ret' = None
            /\ ~HasContent(NextItem) =>
                   call'.metric.total_tokens = call.metric.total_tokens
            /\ ~HasUsageCount(NextItem) =>
                   call'.usage_completion_tokens = call.usage_completion_tokens
         ]_vars
    /\ []((Returned /\ response.stream # <<>>
              /\ \A i \in 1..Len(response.stream) : Hollow(response.stream[i])) =>
            /\ ret.v.ok
            /\ ret.v.v.chunk_count = Len(response.stream)
            /\ ret.v.v.total_tokens = 0)

\* A call that received an unparseable payload, an object without fields and
\* an object whose choices and usage have holes has returned.
C30_Witness ==
    /\ Returned
    /\ response.stream = << EvGarbage, EvEmptyObject, EvHoles >>
    /\ ret.v.ok
    /\ ret.v.v.chunk_count = 3
    /\ ret.v.v.time_to_first_chunk.v > 0

(***************************************************************************)
(* Permits (C31)                                                           *)
(***************************************************************************)
InTest == pc \in {"spawn", "merge"}
PermitHolders == {i \in 1..Len(tasks) : tasks[i].permit}

\* C31: during a test the permits held by tasks and the permits available
\* add up to `concurrency`; a task holds a permit exactly from its acquire,
\* before its request is dispatched, until its request has completed; the
\* permit goes back when the call succeeded, when it failed and when the
\* task panicked; after join_all every permit is available again.
C31_PermitConservation ==
    /\ [](InTest => Cardinality(PermitHolders) + semaphore = config.concurrency)
    /\ [](\A i \in 1..Len(tasks) :
              tasks[i].permit <=> tasks[i].st \in {"permit", "inflight"})
    /\ [][\A i \in 1..Len(tasks) :
              (Outstanding(i) /\ i <= Len(tasks') /\ tasks'[i].st = "done") =>
                  /\ ~tasks'[i].permit
                  /\ semaphore' = semaphore + 1]_vars
    /\ [](pc = "merge" => PermitHolders = {} /\ semaphore = config.concurrency)

\* Of two tasks sharing two permits one has panicked and given its permit
\* back, the other holds its permit with its request in flight.
C31_Witness ==
    /\ pc = "spawn"
    /\ config.concurrency = 2
    /\ Len(tasks) = 2
    /\ \E i, j \in 1..2 :
           /\ tasks[i].panicked /\ ~tasks[i].permit
           /\ Outstanding(j) /\ tasks[j].permit
    /\ semaphore = 1

\* Past the barrier of a test in which one call failed and one succeeded
C31_BarrierWitness ==
    /\ pc = "merge"
    /\ config.concurrency = 2
    /\ semaphore = 2
    /\ \E i, j \in 1..Len(tasks) :
           /\ ~tasks[i].panicked /\ tasks[i].answer.http # "ok"
           /\ ~tasks[j].panicked /\ tasks[j].answer.http = "ok"

(***************************************************************************)
(* Milestones of the stream consumer (C32)                                 *)
(***************************************************************************)
\* The events, not counting a transport error, the loop has been given
ReceivedSoFar == Cardinality({i \in 1..consumed : ~response.stream[i].err})

FirstChunk == call.metric.time_to_first_chunk

\* C32: time_to_first_chunk is set once, at the first event received, to the
\* time of that event and never changes afterwards; chunk_count is the
\* number of events received so far and never falls; a metric returned as a
\* success has time_to_first_chunk set, chunk_count >= 1 and
\* time_to_first_chunk <= total_duration, and so has every streaming metric
\* in the collector.
C32_Milestones ==
    /\ [](/\ call.metric.chunk_count = ReceivedSoFar
          /\ FirstChunk.some <=> ReceivedSoFar >= 1)
    /\ [][FirstChunk.some => call'.metric.time_to_first_chunk = FirstChunk]_vars
    /\ [][(~FirstChunk.some /\ call'.metric.time_to_first_chunk.some) =>
             /\ Received
             /\ ReceivedSoFar = 0
             /\ call'.metric.time_to_first_chunk.v = call'.now]_vars
    /\ [][call'.metric.chunk_count >= call.metric.chunk_count]_vars
    /\ []((spc = "returned" /\ ret.v.ok) =>
             /\ ret.v.v.time_to_first_chunk.some
             /\ ret.v.v.time_to_first_chunk = FirstChunk
             /\ ret.v.v.chunk_count = ReceivedSoFar
             /\ ret.v.v.chunk_count >= 1
             /\ ret.v.v.time_to_first_chunk.v <= ret.v.v.total_duration)
    /\ [](\A k \in 1..Len(collector.streaming_metrics) :
              /\ collector.streaming_metrics[k].time_to_first_chunk.some
              /\ collector.streaming_metrics[k].chunk_count >= 1)

\* The collector holds the metric of a call of three events, the first of
\* which came after some time and before the end.
C32_Witness ==
    /\ Len(collector.streaming_metrics) = 1
    /\ collector.streaming_metrics[1].chunk_count = 3
    /\ collector.streaming_metrics[1].time_to_first_chunk.v > 0
    /\ collector.streaming_metrics[1].time_to_first_chunk.v
           < collector.streaming_metrics[1].total_duration

\* A call without events has returned an error, which the collector logged.
C32_NoChunkWitness ==
    /\ Returned
    /\ ReceivedSoFar = 0
    /\ ~ret.v.ok
    /\ collector.streaming_metrics = <<>>
    /\ Len(collector.errors) = 1


=============================================================================
